---------------------------- MODULE Spec2Model ----------------------------
(***************************************************************************)
(* tap2tool: discovery of TAP archives, bounded introspection of their      *)
(* table catalogs, the obscore compliance check and the generation of the   *)
(* query-builder document (src/tap2tool.py).                                *)
(*                                                                          *)
(* Texts are strings.  A generated XML text is the sequence of its tags,    *)
(* one record per tag with its attributes (whitespace is dropped), so that  *)
(* string concatenation is sequence concatenation and "" is <<>>.           *)
(***************************************************************************)
EXTENDS Integers, Sequences, FiniteSets, TLC

(***************************************************************************)
(* Python values                                                            *)
(***************************************************************************)
\* Python's None where a text is expected, where an object is expected and
\* where a list is expected (TLC compares values of one kind only)
None == "<None>"

NoObject == [class |-> "NoneType"]

NoList == << NoObject >>

\* reading the attribute raises
Raises == "<raises>"

\* an attribute that was never assigned
Unset == "<unset>"

\* x != '' and x is not None
NonEmpty(x) == x # "" /\ x # None

\* the text ""
EmptyText == << >>

RECURSIVE Flatten(_)
\* the concatenation of a sequence of texts
Flatten(texts) ==
    IF texts = << >> THEN << >> ELSE Head(texts) \o Flatten(Tail(texts))

(***************************************************************************)
(* str.lower() on the names the model uses.  Spelling gives the characters  *)
(* of a name; lower maps every upper-case ASCII letter to its lower-case    *)
(* letter and leaves every other character alone.                           *)
(***************************************************************************)
UpperCase == << "A","B","C","D","E","F","G","H","I","J","K","L","M",
                "N","O","P","Q","R","S","T","U","V","W","X","Y","Z" >>

LowerCase == << "a","b","c","d","e","f","g","h","i","j","k","l","m",
                "n","o","p","q","r","s","t","u","v","w","x","y","z" >>

LowerChar(c) ==
    IF \E k \in DOMAIN UpperCase : UpperCase[k] = c
    THEN LowerCase[CHOOSE k \in DOMAIN UpperCase : UpperCase[k] = c]
    ELSE c

lower(chars) == [k \in DOMAIN chars |-> LowerChar(chars[k])]

Spelling(name) ==
    CASE name = "ivoa.obscore" -> << "i","v","o","a",".","o","b","s","c","o","r","e" >>
      [] name = "IVOA.ObsCore" -> << "I","V","O","A",".","O","b","s","C","o","r","e" >>
      [] name = "obscore"      -> << "o","b","s","c","o","r","e" >>
      [] name = "phot"         -> << "p","h","o","t" >>
      [] name = "Aux"          -> << "A","u","x" >>
      [] name = "raw"          -> << "r","a","w" >>

\* TapArchive.OBSCORE_TABLE
OBSCORE_TABLE == "ivoa.obscore"

\* str(table.name).lower() == TapArchive.OBSCORE_TABLE
IsObscoreName(name) == lower(Spelling(name)) = Spelling(OBSCORE_TABLE)

(***************************************************************************)
(* hashlib.md5(name.encode("utf-8")).hexdigest() on the names the model     *)
(* uses                                                                     *)
(***************************************************************************)
md5_hexdigest(name) ==
    CASE name = "Plain Archive"         -> "75092d701dc9fc82c7fa953195fbcddb"
      [] name = "PLN"                   -> "446687ea2db1ada75be5ed053be77f59"
      [] name = "IVO"                   -> "eb08dbc51ce19879d0eefe9e7b298c60"
      [] name = "MAL"                   -> "aac477583e3dabc030891d2562352dac"
      [] name = "No Type Archive"       -> "d697581150dca28619dff80c06dfde09"
      [] name = "Slow Survey"           -> "1d2ec8cab6d2911ee6f113a4f82b5e7a"
      [] name = "https://plain/tap"     -> "8185b21a886a0a10a1616befc96ae69b"
      [] name = "https://ivoa/tap"      -> "b10b0b7fa12ca78706b1df3071f92c4f"
      [] name = "https://empty/tap"     -> "3327d05fbf28cc1b831d657076af2eb9"
      [] name = "https://hang/tap"      -> "470427c55f02cc546192cf37dc05588f"
      [] name = "https://refuse/tap"    -> "c3191e414b205e278491b4b5c163d4b3"
      [] name = "https://malformed/tap" -> "2f996c6ab9064da196fb164ed39c15b8"
      [] name = "https://notype/tap"    -> "261437a2af2977c9f138b84b5acdbcd5"
      [] name = "https://slow/tap"      -> "237f371ae76b42cafd1408faa2853be1"

(***************************************************************************)
(* The remote services.  A catalog is what service.tables delivers: tables  *)
(* with columns, a column's datatype being the content of its datatype      *)
(* element, or None when the column has none.  answers[1] is how the        *)
(* service answers the catalog request and answers[k + 1] how it delivers   *)
(* table k: "ok", "error" (the transport raises), "slow" (the answer takes  *)
(* longer than the deadline of _set_tables) or "hang" (no answer, ever).    *)
(***************************************************************************)
Column(name, datatype, unit, description) ==
    [name |-> name, datatype |-> datatype, unit |-> unit, description |-> description]

RemoteTable(name, type, columns) ==
    [name |-> name, type |-> type, columns |-> columns]

T_phot ==
    RemoteTable("phot", "table",
        << Column("ra", "double", "deg", "Right ascension"),
           Column("id", "int", None, "") >>)

T_aux == RemoteTable("Aux", "view", << Column("flag", "char", None, None) >>)

T_raw == RemoteTable("raw", "table", << >>)

T_obscore ==
    RemoteTable("IVOA.ObsCore", "table",
        << Column("s_ra", "double", "deg", "Central right ascension") >>)

T_notype ==
    RemoteTable("obscore", "table",
        << Column("obs_id", "char", None, "Observation ID"),
           Column("flux", None, "Jy", "Flux") >>)

Remote(access_url) ==
    CASE access_url = "https://plain/tap" ->
           [catalog |-> << T_phot, T_aux >>, answers |-> << "ok", "ok", "ok" >>]
      [] access_url = "https://ivoa/tap" ->
           [catalog |-> << T_phot, T_obscore, T_aux >>,
            answers |-> << "ok", "ok", "ok", "ok" >>]
      [] access_url = "https://empty/tap" ->
           [catalog |-> << >>, answers |-> << "ok" >>]
      [] access_url = "https://hang/tap" ->
           [catalog |-> << T_phot >>, answers |-> << "hang", "ok" >>]
      [] access_url = "https://refuse/tap" ->
           [catalog |-> << T_phot >>, answers |-> << "error", "ok" >>]
      [] access_url = "https://malformed/tap" ->
           [catalog |-> << T_raw, T_phot >>, answers |-> << "ok", "ok", "error" >>]
      [] access_url = "https://notype/tap" ->
           [catalog |-> << T_notype, T_obscore >>, answers |-> << "ok", "ok", "ok" >>]
      [] access_url = "https://slow/tap" ->
           [catalog |-> << T_phot, T_aux >>, answers |-> << "ok", "ok", "slow" >>]

(***************************************************************************)
(* The records of the registry search: access_url, res_title, short_name.   *)
(***************************************************************************)
Record(access_url, res_title, short_name) ==
    [access_url |-> access_url, res_title |-> res_title, short_name |-> short_name]

Descriptors ==
    { Record("https://plain/tap", "Plain Archive", "PLN"),
      Record("https://plain/tap", None, None),
      Record("https://ivoa/tap", "", "IVO"),
      Record("https://empty/tap", None, ""),
      Record("https://hang/tap", "", None),
      Record("https://refuse/tap", "", ""),
      Record("https://malformed/tap", None, "MAL"),
      Record("https://notype/tap", "No Type Archive", ""),
      Record("https://slow/tap", "Slow Survey", None),
      Record(Raises, "Plain Archive", "PLN"),
      Record("", "Plain Archive", ""),
      Record(None, "", "PLN") }

\* for i in range(10)
RecordLimit == 10

\* the longest pattern a candidate list repeats
MaxPattern == 2

\* the longest candidate list shorter than RecordLimit
MaxShort == 2

\* how many records a candidate list can hold beyond RecordLimit
MaxExtra == 1

Patterns == UNION { [1..n -> Descriptors] : n \in 1..MaxPattern }

Cycle(pattern, n) == [k \in 1..n |-> pattern[((k - 1) % Len(pattern)) + 1]]

\* the results of pyvo.registry.search(servicetype="tap")
CandidateLists ==
    { Cycle(p, n) : p \in Patterns,
                    n \in (0..MaxShort) \cup (RecordLimit..(RecordLimit + MaxExtra)) }

(***************************************************************************)
(* TapArchive                                                               *)
(***************************************************************************)
\* TapArchive.Field
Field(name, type, unit, description) ==
    [name |-> name, type |-> type, unit |-> unit, description |-> description]

\* TapArchive.Table
Table(name, type, fields) == [name |-> name, type |-> type, fields |-> fields]

\* table_field.datatype.content raises AttributeError when datatype is None
ColumnRaises(table_field) == table_field.datatype = None

\* the loop over table.columns raises
TableRaises(table) == \E k \in DOMAIN table.columns : ColumnRaises(table.columns[k])

\* the fields list the loop over table.columns builds
FieldsOf(table) ==
    [k \in DOMAIN table.columns |->
        Field(table.columns[k].name, table.columns[k].datatype,
              table.columns[k].unit, table.columns[k].description)]

\* _set_name trying short_name before res_title
ResolvedName_ShortNameFirst(archive_object, access_url) ==
    IF NonEmpty(archive_object.short_name) THEN archive_object.short_name
    ELSE IF NonEmpty(archive_object.res_title) THEN archive_object.res_title
    ELSE access_url

\* TapArchive._set_name
ResolvedName(archive_object, access_url) ==
    IF NonEmpty(archive_object.res_title) THEN archive_object.res_title
    ELSE IF NonEmpty(archive_object.short_name) THEN archive_object.short_name
    ELSE access_url

\* TapArchive._set_hash
HashOf(name) == md5_hexdigest(name)

\* the attributes of a TapArchive when __init__ starts running _initialize
NewArchive(archive_object) ==
    [archive_object |-> archive_object, initialized |-> FALSE, service |-> NoObject,
     tables |-> NoList, access_url |-> Unset, name |-> Unset, hash |-> Unset]

\* no file was written
NoFile == << >>

\* open(output, "w") and file_output.write(file)
FileOf(content) == << content >>

\* no TapArchive is under construction
NoArchive == NewArchive(NoObject)

\* pyvo.dal.TAPService(access_url)
TAPService(access_url) == [baseurl |-> access_url]

\* lines 80-84 of __init__ once _initialize returned True
Initialized(a, tables) ==
    LET name == ResolvedName(a.archive_object, a.access_url)
    IN  [a EXCEPT !.tables = tables, !.initialized = TRUE,
                  !.name = name, !.hash = HashOf(name)]

(***************************************************************************)
(* The state of a run                                                       *)
(***************************************************************************)
VARIABLES
    archive_list,               \* the registry records (get_tap_archives)
    pc,                         \* where the run is
    i,                          \* the loop index of get_non_ivoa_archives
    archive,                    \* the TapArchive under construction or check
    tables,                     \* the local list of _set_tables
    pos,                        \* how many tables of service.tables the loop has taken
    alarm,                      \* a SIGALRM deadline is pending
    timed_out,                  \* _handle_timeout ran for this archive
    non_ivoa_archives,          \* the curated list
    introspected,               \* one entry per TapArchive the loop constructed
    error,                      \* the exception that ended the run, or None
    qbb,                        \* the QueryBuildersBlock
    xml_query_builder_block,    \* the text create_query_builders_xml_block returns
    builders_block_xml,         \* the text qbb.get_xml() returned (test_main)
    file_output                 \* the written file: << >>, or << its content >>

vars == << archive_list, pc, i, archive, tables, pos, alarm, timed_out,
           non_ivoa_archives, introspected, error, qbb,
           xml_query_builder_block, builders_block_xml, file_output >>

\* the remote service of the archive at hand
Service == Remote(archive.access_url)

\* how the remote answers the access the loop is about to make
Answer == Service.answers[IF pc \in {"st_fetch", "check"} THEN 1 ELSE pos + 2]

Init ==
    /\ archive_list \in CandidateLists
    /\ pc = "loop"
    /\ i = 0
    /\ archive = NoArchive
    /\ tables = << >>
    /\ pos = 0
    /\ alarm = FALSE
    /\ timed_out = FALSE
    /\ non_ivoa_archives = << >>
    /\ introspected = << >>
    /\ error = None
    /\ qbb = NoObject
    /\ xml_query_builder_block = EmptyText
    /\ builders_block_xml = EmptyText
    /\ file_output = NoFile

(***************************************************************************)
(* get_non_ivoa_archives and TapArchive.__init__                            *)
(***************************************************************************)
\* lines 588-590 for the archive at hand, then the next turn of the loop:
\* checked tells whether is_ivoa was called and is_ivoa what it returned
EndOfTurn(checked, is_ivoa) ==
    /\ introspected' = Append(introspected,
            [archive |-> archive, timed_out |-> timed_out,
             checked |-> checked, is_ivoa |-> is_ivoa])
    /\ non_ivoa_archives' =
            IF checked /\ ~is_ivoa THEN Append(non_ivoa_archives, archive)
            ELSE non_ivoa_archives
    /\ i' = i + 1
    /\ pc' = "loop"
    /\ archive' = NoArchive
    /\ tables' = << >>
    /\ pos' = 0
    /\ timed_out' = FALSE

\* archive_record = archive_list.getrecord(i) and TapArchive(archive_record)
\* starts
GetRecord ==
    /\ pc = "loop"
    /\ i < RecordLimit
    /\ i < Len(archive_list)
    /\ archive' = NewArchive(archive_list[i + 1])
    /\ pc' = "initialize"
    /\ UNCHANGED << archive_list, i, tables, pos, alarm, timed_out, non_ivoa_archives,
                    introspected, error, qbb, xml_query_builder_block,
                    builders_block_xml, file_output >>

\* _initialize up to the call of _set_service: reading access_url raises and
\* False is returned, or it is "" or None and False is returned, or it is kept
Initialize ==
    /\ pc = "initialize"
    /\ LET access_url == archive.archive_object.access_url
       IN  IF access_url = Raises
           THEN pc' = "check" /\ UNCHANGED archive
           ELSE /\ archive' = [archive EXCEPT !.access_url = access_url]
                /\ pc' = IF access_url = "" \/ access_url = None
                         THEN "check" ELSE "set_service"
    /\ UNCHANGED << archive_list, i, tables, pos, alarm, timed_out, non_ivoa_archives,
                    introspected, error, qbb, xml_query_builder_block,
                    builders_block_xml, file_output >>

\* archive_list.getrecord(i) with no record i: IndexError leaves the loop
GetRecordIndexError ==
    /\ pc = "loop"
    /\ i < RecordLimit
    /\ i >= Len(archive_list)
    /\ pc' = "raised"
    /\ error' = "IndexError"
    /\ UNCHANGED << archive_list, i, archive, tables, pos, alarm, timed_out,
                    non_ivoa_archives, introspected, qbb, xml_query_builder_block,
                    builders_block_xml, file_output >>

\* _set_service, then the timeout wrapper of _set_tables arms the alarm
SetService ==
    /\ pc = "set_service"
    /\ archive' = [archive EXCEPT !.service = TAPService(archive.access_url)]
    /\ alarm' = TRUE
    /\ pc' = "st_begin"
    /\ UNCHANGED << archive_list, i, tables, pos, timed_out, non_ivoa_archives,
                    introspected, error, qbb, xml_query_builder_block,
                    builders_block_xml, file_output >>

(***************************************************************************)
(* TapArchive._set_tables under timeout(5)                                  *)
(***************************************************************************)
\* tables = [] and the try is entered
SetTablesBegin ==
    /\ pc = "st_begin"
    /\ tables' = << >>
    /\ pc' = "st_fetch"
    /\ UNCHANGED << archive_list, i, archive, pos, alarm, timed_out, non_ivoa_archives,
                    introspected, error, qbb, xml_query_builder_block,
                    builders_block_xml, file_output >>

\* self.service.tables: the catalog request is answered in time, or the
\* transport raises and the except clause of _set_tables prints the error
SetTablesFetch ==
    /\ pc = "st_fetch"
    /\ Answer \in {"ok", "error"}
    /\ pc' = IF Answer = "ok" THEN "st_iter" ELSE "st_assign"
    /\ pos' = 0
    /\ UNCHANGED << archive_list, i, archive, tables, alarm, timed_out,
                    non_ivoa_archives, introspected, error, qbb,
                    xml_query_builder_block, builders_block_xml, file_output >>

\* one turn of "for table in self.service.tables": the table is delivered and
\* appended; or its delivery raises, or a column without datatype raises
\* AttributeError, and the except clause prints the error
SetTablesIter ==
    /\ pc = "st_iter"
    /\ IF pos = Len(Service.catalog)
       THEN pc' = "st_assign" /\ UNCHANGED << tables, pos >>
       ELSE /\ Answer \in {"ok", "error"}
            /\ LET table == Service.catalog[pos + 1]
               IN  IF Answer = "error" \/ TableRaises(table)
                   THEN pc' = "st_assign" /\ UNCHANGED << tables, pos >>
                   ELSE /\ tables' = Append(tables,
                                Table(table.name, table.type, FieldsOf(table)))
                        /\ pos' = pos + 1
                        /\ UNCHANGED pc
    /\ UNCHANGED << archive_list, i, archive, alarm, timed_out, non_ivoa_archives,
                    introspected, error, qbb, xml_query_builder_block,
                    builders_block_xml, file_output >>

\* SIGALRM while the remote has not answered within the deadline:
\* _handle_timeout raises TimeoutError inside the try of _set_tables, whose
\* except clause prints it
AlarmFires ==
    /\ alarm
    /\ \/ pc = "st_fetch"
       \/ pc = "st_iter" /\ pos < Len(Service.catalog)
    /\ Answer \in {"slow", "hang"}
    /\ alarm' = FALSE
    /\ timed_out' = TRUE
    /\ pc' = "st_assign"
    /\ UNCHANGED << archive_list, i, archive, tables, pos, non_ivoa_archives,
                    introspected, error, qbb, xml_query_builder_block,
                    builders_block_xml, file_output >>

\* self.tables = tables, the wrapper's signal.alarm(0), _initialize returns
\* True, and __init__ sets the name and the hash
SetTablesAssign ==
    /\ pc = "st_assign"
    /\ archive' = Initialized(archive, tables)
    /\ alarm' = FALSE
    /\ pc' = "check"
    /\ UNCHANGED << archive_list, i, tables, pos, timed_out, non_ivoa_archives,
                    introspected, error, qbb, xml_query_builder_block,
                    builders_block_xml, file_output >>

(***************************************************************************)
(* The loop body after the constructor: is_ivoa                             *)
(***************************************************************************)
\* if archive.initialized is false the archive is dropped
SkipFailed ==
    /\ pc = "check"
    /\ ~archive.initialized
    /\ EndOfTurn(FALSE, FALSE)
    /\ UNCHANGED << archive_list, alarm, error, qbb, xml_query_builder_block,
                    builders_block_xml, file_output >>

\* _is_ivoa_compliant reads self.service.tables, under no deadline: the
\* catalog request is answered, or the transport raises, the except clause
\* prints the error and the archive counts as not compliant; a request that
\* is never answered leaves the run here
IsIvoaFetch ==
    /\ pc = "check"
    /\ archive.initialized
    /\ Answer # "hang"
    /\ IF Answer = "error"
       THEN EndOfTurn(TRUE, FALSE)
       ELSE /\ pc' = "iv_iter"
            /\ pos' = 0
            /\ UNCHANGED << i, archive, tables, timed_out, non_ivoa_archives,
                            introspected >>
    /\ UNCHANGED << archive_list, alarm, error, qbb, xml_query_builder_block,
                    builders_block_xml, file_output >>

\* one turn of the loop of _is_ivoa_compliant
IsIvoaIter ==
    /\ pc = "iv_iter"
    /\ IF pos = Len(Service.catalog)
       THEN EndOfTurn(TRUE, FALSE)
       ELSE /\ Answer # "hang"
            /\ IF Answer = "error"
               THEN EndOfTurn(TRUE, FALSE)
               ELSE IF IsObscoreName(Service.catalog[pos + 1].name)
               THEN EndOfTurn(TRUE, TRUE)
               ELSE /\ pos' = pos + 1
                    /\ UNCHANGED << pc, i, archive, tables, timed_out,
                                    non_ivoa_archives, introspected >>
    /\ UNCHANGED << archive_list, alarm, error, qbb, xml_query_builder_block,
                    builders_block_xml, file_output >>

(***************************************************************************)
(* ToolOption, ToolSelect, ToolParam, ToolWhen, ToolWhenNested              *)
(***************************************************************************)
ToolOption(value, name) == [class |-> "ToolOption", value |-> value, name |-> name]

\* '<option value="{value}">{name}</option>'
ToolOption_get_xml(option) ==
    << [tag |-> "option", value |-> option.value, text |-> option.name] >>

ToolSelect(name, label, options) ==
    [class |-> "ToolSelect", name |-> name, label |-> label, options |-> options]

ToolSelect_get_xml(select) ==
    << [tag |-> "param", name |-> select.name, type |-> "select",
        label |-> select.label] >>
    \o Flatten([k \in DOMAIN select.options |-> ToolOption_get_xml(select.options[k])])
    \o << [tag |-> "/param"] >>

\* ToolParam.DEFAULT_TYPE
DEFAULT_TYPE == "text"

\* ToolParam.allowed_type_list
allowed_type_list == << "int", "text", "float", "select" >>

\* ToolParam._is_type_valid
IsTypeValid(data_type) ==
    \E k \in DOMAIN allowed_type_list : allowed_type_list[k] = data_type

\* ToolParam.__init__ keeping any data_type that is given
ParamType_Unvalidated(data_type) ==
    IF NonEmpty(data_type) THEN data_type ELSE DEFAULT_TYPE

\* the data_type ToolParam.__init__ keeps
ParamType(data_type) ==
    IF NonEmpty(data_type)
    THEN IF ~IsTypeValid(data_type) THEN DEFAULT_TYPE ELSE data_type
    ELSE DEFAULT_TYPE

ToolParam(name, label, data_type, help) ==
    [class |-> "ToolParam", name |-> name, label |-> label,
     data_type |-> ParamType(data_type), help |-> help]

ToolParam_get_xml(param) ==
    IF NonEmpty(param.data_type) /\ NonEmpty(param.help)
    THEN << [tag |-> "param/", name |-> param.name, type |-> param.data_type,
             label |-> param.label, help |-> param.help] >>
    ELSE IF NonEmpty(param.data_type)
    THEN << [tag |-> "param/", name |-> param.name, type |-> param.data_type,
             label |-> param.label] >>
    ELSE IF NonEmpty(param.help)
    THEN << [tag |-> "param/", name |-> param.name, type |-> DEFAULT_TYPE,
             label |-> param.label, help |-> param.help] >>
    ELSE << [tag |-> "param/", name |-> param.name, type |-> DEFAULT_TYPE,
             label |-> param.label] >>

\* param.get_xml() for the objects a ToolWhen holds
Param_get_xml(param) ==
    IF param.class = "ToolSelect" THEN ToolSelect_get_xml(param)
    ELSE ToolParam_get_xml(param)

ToolWhen(value, params) == [class |-> "ToolWhen", value |-> value, params |-> params]

ToolWhen_get_xml(when) ==
    << [tag |-> "when", value |-> when.value] >>
    \o Flatten([k \in DOMAIN when.params |-> Param_get_xml(when.params[k])])
    \o << [tag |-> "/when"] >>

ToolWhenNested(value, xml_params) ==
    [class |-> "ToolWhenNested", value |-> value, xml_params |-> xml_params]

\* ToolConditional.CONDITIONAL_TAG_OPEN and CONDITIONAL_TAG_CLOSE enclose the
\* parameters
ToolWhenNested_get_xml(when) ==
    << [tag |-> "when", value |-> when.value], [tag |-> "conditional"] >>
    \o when.xml_params
    \o << [tag |-> "/conditional"], [tag |-> "/when"] >>

(***************************************************************************)
(* QueryBuildersBlock                                                       *)
(***************************************************************************)
\* TapArchive.get_name
get_name(a) ==
    IF NonEmpty(a.name) THEN a.name ELSE ResolvedName(a.archive_object, a.access_url)

\* TapArchive.get_hash
get_hash(a) == IF NonEmpty(a.hash) THEN a.hash ELSE HashOf(get_name(a))

\* QueryBuildersBlock.__init__
QueryBuildersBlock(archives) ==
    [archive_list |-> archives, builder_selection_block |-> EmptyText,
     builders_block |-> EmptyText]

\* the three options every selection block starts with
FixedOptions ==
    << ToolOption("none", "No specific query (first n files from archive)"),
       ToolOption("obscore_query", "IVOA obscore table query builder"),
       ToolOption("raw_query", "Raw ADQL query builder") >>

generate_builder_selection_block(archives) ==
    ToolSelect("query_type", "ADQL Query Selection",
        FixedOptions
        \o [k \in DOMAIN archives |->
                ToolOption(get_hash(archives[k]), get_name(archives[k]))])

generate_builder_table_selection_block(archive_tables) ==
    ToolSelect("table_selection", "Table selection",
        [k \in DOMAIN archive_tables |->
            ToolOption(archive_tables[k].name, archive_tables[k].name)])

\* the ToolWhen of one table: the download_url select, the access_url
\* parameter, then one parameter per field
TableParams(table) ==
    ToolWhen(table.name,
        << ToolSelect("download_url", "Download field",
                [k \in DOMAIN table.fields |->
                    ToolOption(table.fields[k].name, table.fields[k].name)]),
           ToolParam("access_url", "Url download field", "text",
                     "Field containing the download url of the file") >>
        \o [k \in DOMAIN table.fields |->
                ToolParam(table.fields[k].name, table.fields[k].name,
                          table.fields[k].type, table.fields[k].description)])

generate_builder_params_block(archive_tables) ==
    [k \in DOMAIN archive_tables |-> TableParams(archive_tables[k])]

\* the nested branch generate_builders_block emits for one archive
BuilderBlock(a) ==
    LET query_builder_params == generate_builder_params_block(a.tables)
        xml_params ==
            ToolSelect_get_xml(generate_builder_table_selection_block(a.tables))
            \o Flatten([k \in DOMAIN query_builder_params |->
                            ToolWhen_get_xml(query_builder_params[k])])
    IN  ToolWhenNested_get_xml(ToolWhenNested(get_hash(a), xml_params))

\* generate_builders_block leaving out the archives without tables
generate_builders_block_SkippingEmpty(archives) ==
    Flatten([k \in DOMAIN archives |->
                IF archives[k].tables = << >> THEN << >> ELSE BuilderBlock(archives[k])])

generate_builders_block(archives) ==
    Flatten([k \in DOMAIN archives |-> BuilderBlock(archives[k])])

\* QueryBuildersBlock.generate_block
generate_block(block) ==
    [block EXCEPT
        !.builder_selection_block = generate_builder_selection_block(block.archive_list),
        !.builders_block = generate_builders_block(block.archive_list)]

\* QueryBuildersBlock.get_xml
get_xml(block) == ToolSelect_get_xml(block.builder_selection_block) \o block.builders_block

(***************************************************************************)
(* create_xml_query_builders_block_file                                     *)
(***************************************************************************)
\* get_non_ivoa_archives returns after RecordLimit turns
ReturnCurated ==
    /\ pc = "loop"
    /\ i = RecordLimit
    /\ pc' = "curated"
    /\ UNCHANGED << archive_list, i, archive, tables, pos, alarm, timed_out,
                    non_ivoa_archives, introspected, error, qbb,
                    xml_query_builder_block, builders_block_xml, file_output >>

\* create_query_builders_xml_block constructs the QueryBuildersBlock and
\* returns xml_query_builder_block, which is still ""
CreateBlock ==
    /\ pc = "curated"
    /\ qbb' = QueryBuildersBlock(non_ivoa_archives)
    /\ xml_query_builder_block' = EmptyText
    /\ pc' = "write"
    /\ UNCHANGED << archive_list, i, archive, tables, pos, alarm, timed_out,
                    non_ivoa_archives, introspected, error, builders_block_xml,
                    file_output >>

\* FileHandler.write_file_to_output(file_content, file_path, "w")
WriteFile ==
    /\ pc = "write"
    /\ file_output' = FileOf(xml_query_builder_block)
    /\ pc' = "done"
    /\ UNCHANGED << archive_list, i, archive, tables, pos, alarm, timed_out,
                    non_ivoa_archives, introspected, error, qbb,
                    xml_query_builder_block, builders_block_xml >>

Next ==
    \/ GetRecord
    \/ Initialize
    \/ GetRecordIndexError
    \/ SetService
    \/ SetTablesBegin
    \/ SetTablesFetch
    \/ SetTablesIter
    \/ AlarmFires
    \/ SetTablesAssign
    \/ SkipFailed
    \/ IsIvoaFetch
    \/ IsIvoaIter
    \/ ReturnCurated
    \/ CreateBlock
    \/ WriteFile

Spec == Init /\ [][Next]_vars

\* the run is one sequential process: it takes a step whenever one is possible
FairSpec == Spec /\ WF_vars(Next)

(***************************************************************************)
(* test_main from the construction of the QueryBuildersBlock on, for        *)
(* curated lists drawn from Ready archives with fields of every kind of     *)
(* data type                                                                *)
(***************************************************************************)
\* the data types a field can carry: the allowed ones, others, "" and None
DataTypes == << "int", "text", "float", "select", "blob", "double", "", None >>

\* a help text for every second field, "" or None for the others
Descriptions == << "Identifier", "", "Flux", None, "Payload", None, "", "Comment" >>

FieldNames == << "id", "note", "flux", "band", "payload", "ra", "flag", "misc" >>

TypedFields ==
    [k \in DOMAIN DataTypes |-> Field(FieldNames[k], DataTypes[k], None, Descriptions[k])]

SampleTableLists ==
    { << >>,
      << Table("raw", "table", << >>) >>,
      << Table("phot", "table", TypedFields) >>,
      << Table("Aux", "view", SubSeq(TypedFields, 5, 6)),
         Table("phot", "table", SubSeq(TypedFields, 1, 2)) >> }

\* a Ready TapArchive with the given record and tables
ReadyArchive(archive_object, archive_tables) ==
    Initialized([NewArchive(archive_object) EXCEPT
                    !.access_url = archive_object.access_url,
                    !.service = TAPService(archive_object.access_url)],
                archive_tables)

BuildArchives ==
    { ReadyArchive(d, t) :
        d \in { Record("https://plain/tap", "Plain Archive", "PLN"),
                Record("https://ivoa/tap", "", "IVO") },
        t \in SampleTableLists }

\* the longest curated list given to QueryBuildersBlock
MaxArchives == 2

ArchiveLists == UNION { [1..n -> BuildArchives] : n \in 0..MaxArchives }

InitBuild ==
    /\ non_ivoa_archives \in ArchiveLists
    /\ qbb = QueryBuildersBlock(non_ivoa_archives)
    /\ pc = "tm_generate"
    /\ archive_list = << >>
    /\ i = RecordLimit
    /\ archive = NoArchive
    /\ tables = << >>
    /\ pos = 0
    /\ alarm = FALSE
    /\ timed_out = FALSE
    /\ introspected = << >>
    /\ error = None
    /\ xml_query_builder_block = EmptyText
    /\ builders_block_xml = EmptyText
    /\ file_output = NoFile

\* qbb.generate_block()
GenerateBlock ==
    /\ pc = "tm_generate"
    /\ qbb' = generate_block(qbb)
    /\ pc' = "tm_get_xml"
    /\ UNCHANGED << archive_list, i, archive, tables, pos, alarm, timed_out,
                    non_ivoa_archives, introspected, error, xml_query_builder_block,
                    builders_block_xml, file_output >>

\* builders_block_xml = qbb.get_xml()
GetXml ==
    /\ pc = "tm_get_xml"
    /\ builders_block_xml' = get_xml(qbb)
    /\ pc' = "tm_write"
    /\ UNCHANGED << archive_list, i, archive, tables, pos, alarm, timed_out,
                    non_ivoa_archives, introspected, error, qbb,
                    xml_query_builder_block, file_output >>

\* FileHandler.write_file_to_output(builders_block_xml, file_location, "w")
WriteOutput ==
    /\ pc = "tm_write"
    /\ file_output' = FileOf(builders_block_xml)
    /\ pc' = "tm_done"
    /\ UNCHANGED << archive_list, i, archive, tables, pos, alarm, timed_out,
                    non_ivoa_archives, introspected, error, qbb,
                    xml_query_builder_block, builders_block_xml >>

NextBuild ==
    \/ GenerateBlock
    \/ GetXml
    \/ WriteOutput

SpecBuild == InitBuild /\ [][NextBuild]_vars

(***************************************************************************)
(* What the claims speak of                                                 *)
(***************************************************************************)
\* get_non_ivoa_archives is over: it returned, or an exception left it
CurationOver == pc \in {"curated", "write", "done", "raised"}

\* the first non-empty text of a sequence of texts, its last one if none is
FirstNonEmpty(texts) ==
    IF \E k \in DOMAIN texts : NonEmpty(texts[k])
    THEN texts[CHOOSE k \in DOMAIN texts :
                  /\ NonEmpty(texts[k])
                  /\ \A j \in 1..(k - 1) : ~NonEmpty(texts[j])]
    ELSE texts[Len(texts)]

\* the archive was constructed from a record with a usable access URL
HasUrl(a) == a.access_url \notin {Unset, "", None}

\* a table list holds a table named ivoa.obscore, ignoring case
HoldsObscore(table_list) ==
    \E k \in DOMAIN table_list : IsObscoreName(table_list[k].name)

\* the table fetch of the service meets a transport error: some answer is an
\* error and everything before it was delivered and read
TransportFails(access_url) ==
    LET r == Remote(access_url)
    IN  \E k \in DOMAIN r.answers :
            /\ r.answers[k] = "error"
            /\ \A j \in 1..(k - 1) :
                    /\ r.answers[j] = "ok"
                    /\ j >= 2 => ~TableRaises(r.catalog[j - 1])

\* C1: an archive whose catalog fetch was cut by the deadline is Failed
\* (initialized is False) and is not in the curated list
C1_TimedOutArchiveIsFailed ==
    /\ (pc = "check" /\ timed_out) => ~archive.initialized
    /\ \A k \in DOMAIN introspected :
            introspected[k].timed_out =>
                /\ ~introspected[k].archive.initialized
                /\ ~(introspected[k].checked /\ ~introspected[k].is_ivoa)

\* C2: whatever the candidates, one of them never answering included,
\* curation eventually terminates
C2_CurationTerminates == <>CurationOver

\* C3: an archive whose table fetch met a transport error is Failed and
\* excluded from the curated list
C3_TransportErrorIsIsolated ==
    /\ (pc = "check" /\ HasUrl(archive) /\ TransportFails(archive.access_url))
            => ~archive.initialized
    /\ \A k \in DOMAIN introspected :
            (HasUrl(introspected[k].archive)
                /\ TransportFails(introspected[k].archive.access_url))
            => /\ ~introspected[k].archive.initialized
               /\ ~introspected[k].checked

\* the archives of the introspected candidates that are Ready and not
\* compliant, in the order of the candidates
RECURSIVE ReadyNotCompliant(_)
ReadyNotCompliant(entries) ==
    IF entries = << >> THEN << >>
    ELSE (IF Head(entries).archive.initialized /\ ~Head(entries).is_ivoa
          THEN << Head(entries).archive >> ELSE << >>)
         \o ReadyNotCompliant(Tail(entries))

\* C4: when curation is over it has returned, every candidate was
\* introspected, in order, and the curated list is the subsequence of the
\* Ready and not compliant ones
C4_CuratesEveryCandidateInOrder ==
    CurationOver =>
        /\ pc # "raised"
        /\ Len(introspected) = Len(archive_list)
        /\ \A k \in DOMAIN introspected :
                introspected[k].archive.archive_object = archive_list[k]
        /\ non_ivoa_archives = ReadyNotCompliant(introspected)

\* a candidate that is Failed for want of an access URL, or whose catalog
\* holds the obscore table
FailedOrCompliant(archive_record) ==
    \/ archive_record.access_url \in {Raises, "", None}
    \/ /\ \A k \in DOMAIN Remote(archive_record.access_url).answers :
                Remote(archive_record.access_url).answers[k] = "ok"
       /\ HoldsObscore(Remote(archive_record.access_url).catalog)

\* C5: with no candidate, or only Failed or compliant candidates, curation
\* returns the empty list and raises nothing
C5_NothingToCurateGivesEmptyList ==
    (CurationOver /\ \A k \in DOMAIN archive_list : FailedOrCompliant(archive_list[k]))
        => pc # "raised" /\ non_ivoa_archives = << >>

\* C6: for a Ready archive is_ivoa returns true exactly when the archive's
\* own table list holds the obscore table
C6_IsIvoaIffOwnTablesHoldObscore ==
    \A k \in DOMAIN introspected :
        introspected[k].checked =>
            (introspected[k].is_ivoa <=> HoldsObscore(introspected[k].archive.tables))

\* the name and the hash are set by the priority rule
NamedByPriority(a) ==
    /\ a.name = FirstNonEmpty(<< a.archive_object.res_title,
                                 a.archive_object.short_name,
                                 a.archive_object.access_url >>)
    /\ a.hash = md5_hexdigest(a.name)

\* C7 as stated: every constructed archive, Ready or Failed, has its name set
\* by the priority rule and its hash set from the name
C7_EveryArchiveNamed == pc = "check" => NamedByPriority(archive)

\* C7 amended: every constructed archive that is Ready has its name set by
\* the priority rule and its hash set from the name; a Failed one has neither
C7_ReadyArchiveNamed ==
    pc = "check" =>
        IF archive.initialized THEN NamedByPriority(archive)
        ELSE archive.name = Unset /\ archive.hash = Unset

\* a Ready archive whose record has no title but a short name
C7_Witness ==
    /\ pc = "check"
    /\ archive.initialized
    /\ ~NonEmpty(archive.archive_object.res_title)
    /\ archive.name = archive.archive_object.short_name

(***************************************************************************)
(* Reading a generated document back                                        *)
(***************************************************************************)
\* the document test_main obtained from qbb.get_xml()
Generated == pc \in {"tm_write", "tm_done"}

\* the index of the first tag closing a selector
FirstClose(document) ==
    CHOOSE k \in DOMAIN document :
        /\ document[k].tag = "/param"
        /\ \A j \in 1..(k - 1) : document[j].tag # "/param"

\* the document opens with the root selector, which holds options only
HasRootSelector(document) ==
    /\ Len(document) >= 2
    /\ document[1].tag = "param"
    /\ document[1].name = "query_type"
    /\ \E k \in DOMAIN document : document[k].tag = "/param"
    /\ \A k \in 2..(FirstClose(document) - 1) : document[k].tag = "option"

\* the keys of the options of the root selector, in order
RootOptionKeys(document) ==
    [k \in 1..(FirstClose(document) - 2) |-> document[k + 1].value]

\* tag k opens a nested branch: a when followed by a conditional
OpensBranch(document, k) ==
    /\ document[k].tag = "when"
    /\ k < Len(document)
    /\ document[k + 1].tag = "conditional"

RECURSIVE BranchKeysFrom(_, _)
BranchKeysFrom(document, k) ==
    IF k > Len(document) THEN << >>
    ELSE (IF OpensBranch(document, k) THEN << document[k].value >> ELSE << >>)
         \o BranchKeysFrom(document, k + 1)

\* the keys of the nested branches of the document, in order
BranchKeys(document) == BranchKeysFrom(document, 1)

RECURSIVE ParamTypesFrom(_, _)
ParamTypesFrom(document, k) ==
    IF k > Len(document) THEN << >>
    ELSE (IF document[k].tag = "param/" THEN << document[k].type >> ELSE << >>)
         \o ParamTypesFrom(document, k + 1)

\* the types of the parameter descriptors of the document, in order
ParamTypes(document) == ParamTypesFrom(document, 1)

\* the hashes of a list of archives, in order
Hashes(archives) == [k \in DOMAIN archives |-> archives[k].hash]

\* C8: the root selector holds the three fixed options, then one option per
\* archive in list order keyed by its hash; the document holds one nested
\* branch per archive, in the same order and keyed by the same hash; for an
\* empty list it holds the three fixed options and no branch at all
C8_OneOptionAndOneBranchPerArchive ==
    Generated =>
        /\ HasRootSelector(builders_block_xml)
        /\ RootOptionKeys(builders_block_xml)
                = << "none", "obscore_query", "raw_query" >> \o Hashes(non_ivoa_archives)
        /\ BranchKeys(builders_block_xml) = Hashes(non_ivoa_archives)
        /\ non_ivoa_archives = << >> =>
                \A k \in DOMAIN builders_block_xml : builders_block_xml[k].tag # "when"

\* a document generated for two archives with different hashes, the second
\* one without tables
C8_Witness ==
    /\ Generated
    /\ Len(non_ivoa_archives) = 2
    /\ non_ivoa_archives[1].hash # non_ivoa_archives[2].hash
    /\ non_ivoa_archives[2].tables = << >>
    /\ Len(BranchKeys(builders_block_xml)) = 2

\* the type the claim gives a field of the reported type
CoercedType(type) == IF type \in {"int", "text", "float", "select"} THEN type ELSE "text"

\* the types the claim gives the parameter descriptors of a table: the
\* access_url parameter is a text, then one type per field
TableTypes(table) ==
    << "text" >> \o [k \in DOMAIN table.fields |-> CoercedType(table.fields[k].type)]

\* the types the claim gives the parameter descriptors of a list of archives
ArchiveTypes(archives) ==
    Flatten([k \in DOMAIN archives |->
                Flatten([j \in DOMAIN archives[k].tables |->
                            TableTypes(archives[k].tables[j])])])

\* C9: every parameter of the document has a type of the allowed set; a
\* field's parameter has the field's type when it is in the set and text
\* when it is not, or when the field has no type
C9_ParameterTypesAreAllowed ==
    Generated =>
        /\ \A k \in DOMAIN builders_block_xml :
                builders_block_xml[k].tag \in {"param", "param/"}
                    => builders_block_xml[k].type \in {"int", "text", "float", "select"}
        /\ ParamTypes(builders_block_xml) = ArchiveTypes(non_ivoa_archives)

\* a document generated for a table with a blob field, a field without type
\* and a float field
C9_Witness ==
    /\ Generated
    /\ \E k \in DOMAIN non_ivoa_archives :
        \E j \in DOMAIN non_ivoa_archives[k].tables :
            LET fields == non_ivoa_archives[k].tables[j].fields
            IN  /\ \E f \in DOMAIN fields : fields[f].type = "blob"
                /\ \E f \in DOMAIN fields : fields[f].type = None
                /\ \E f \in DOMAIN fields : fields[f].type = "float"
    /\ \E k \in DOMAIN builders_block_xml :
            /\ builders_block_xml[k].tag = "param/"
            /\ builders_block_xml[k].name = "payload"
            /\ builders_block_xml[k].type = "text"

\* C10: the file written holds the document QueryBuildersBlock generates
\* from the curated list, for an empty curated list the root selector with
\* the three fixed options
C10_WritesGeneratedDocument ==
    pc = "done" =>
        file_output = FileOf(get_xml(generate_block(QueryBuildersBlock(non_ivoa_archives))))

\* the catalog of the service is fetched in time: every answer arrives
FetchedInTime(access_url) ==
    \A k \in DOMAIN Remote(access_url).answers : Remote(access_url).answers[k] = "ok"

\* the table list the claim expects of a catalog: every table, with every
\* column, a column without datatype classified as text
EveryTableOf(catalog) ==
    [k \in DOMAIN catalog |->
        [name |-> catalog[k].name, type |-> catalog[k].type,
         fields |->
            [j \in DOMAIN catalog[k].columns |->
                [name |-> catalog[k].columns[j].name,
                 type |-> IF catalog[k].columns[j].datatype = None THEN "text"
                          ELSE catalog[k].columns[j].datatype,
                 unit |-> catalog[k].columns[j].unit,
                 description |-> catalog[k].columns[j].description]]]]

\* C11: when the catalog is fetched in time, a column without data type
\* included, the constructed archive is Ready and its table list holds every
\* table of the catalog with every column, in catalog order, the column
\* without data type classified as text
C11_MissingTypeLosesNothing ==
    (pc = "check" /\ HasUrl(archive) /\ FetchedInTime(archive.access_url))
        => /\ archive.initialized
           /\ archive.tables = EveryTableOf(Remote(archive.access_url).catalog)

=============================================================================
